---- MODULE Spec2Model ----
(***************************************************************************)
(* tokio-io-timeout: TimeoutState and the TimeoutReader / TimeoutWriter /   *)
(* TimeoutStream decorators of src/src/lib.rs, as a state machine.           *)
(*                                                                         *)
(* The modelled object is one TimeoutStream, i.e. a TimeoutReader wrapped  *)
(* around a TimeoutWriter wrapped around an inner stream S.  `reader` is   *)
(* the TimeoutState owned by the TimeoutReader layer, `writer` the one     *)
(* owned by the TimeoutWriter layer.  The inner stream is the environment: *)
(* every call draws the inner operation's result from the results that     *)
(* operation's type allows.  Time is a discrete monotonic clock `now`.     *)
(***************************************************************************)
EXTENDS Integers, Sequences, FiniteSets, TLC

\* Largest configurable timeout Duration, in clock ticks.
MaxT == 1
\* Last instant of the clock.
MaxTime == 2
\* Most ticks that can pass inside one call, between the Instant::now() that
\* arms the countdown and the Instant::now() read by the timer's poll.
MaxSlip == 1

----------------------------------------------------------------------------
(* Option<Duration> *)

None == <<>>
Some(t) == <<t>>
Durations == 0..MaxT
OptDuration == {None} \cup {Some(t) : t \in Durations}

\* A moment that is no Instant (history variables only).
Never == 0 - 1

----------------------------------------------------------------------------
(* Results of the inner operations.  read/write/flush return io::Result,   *)
(* read_buf/write_buf/shutdown return Poll<_, io::Error>.                  *)

ErrWouldBlock == "Err(WouldBlock)"
NotReady == "Ok(NotReady)"
ErrTimedOut == "Err(TimedOut)"
ErrOther == "Err(Other)"

ReadOps == {"read", "read_buf"}
WriteOps == {"write", "flush", "shutdown", "write_buf"}

InnerResults(op) ==
    CASE op = "read" -> {"Ok(n)", "Ok(0)", ErrWouldBlock, ErrOther, ErrTimedOut}
      [] op = "write" -> {"Ok(n)", ErrWouldBlock, ErrOther, ErrTimedOut}
      [] op = "flush" -> {"Ok(())", ErrWouldBlock, ErrOther, ErrTimedOut}
      [] op = "read_buf" -> {"Ok(Ready(n))", "Ok(Ready(0))", NotReady, ErrOther, ErrTimedOut}
      [] op = "write_buf" -> {"Ok(Ready(n))", NotReady, ErrOther, ErrTimedOut}
      [] op = "shutdown" -> {"Ok(Ready(()))", NotReady, ErrOther, ErrTimedOut}

\* The would-block result of each operation, as its match arm tests it.
WouldBlockOf(op) == IF op \in {"read", "write", "flush"} THEN ErrWouldBlock ELSE NotReady

----------------------------------------------------------------------------
(* tokio_core::reactor::Timeout, as TimeoutState uses it: a deadline `when` *)

\* Timeout::new(Duration::from_secs(0), handle): fires at construction time.
Timeout_new(t) == t + 0

\* Timeout::reset(at)
Timeout_reset(at) == at

\* Timeout::poll().is_ready(): the deadline is not after the current instant.
Timeout_poll(when, t) == when <= t

----------------------------------------------------------------------------
(* TimeoutState *)

\* new() that starts with a zero timeout configured
TimeoutState_new_zero(t) == [timeout |-> Some(0), cur |-> Timeout_new(t), active |-> FALSE]

TimeoutState_new(t) == [timeout |-> None, cur |-> Timeout_new(t), active |-> FALSE]

timeout(s) == s.timeout

\* reset() that also forgets the configured timeout
reset_disable(s, t) ==
    IF s.active
    THEN [s EXCEPT !.active = FALSE, !.cur = Timeout_reset(t), !.timeout = None]
    ELSE s

\* reset() that leaves a running countdown running
reset_keep(s, t) == s

\* reset() that re-initialises the timer but forgets to clear `active`
reset_timeronly(s, t) ==
    IF s.active THEN [s EXCEPT !.cur = Timeout_reset(t)] ELSE s

reset(s, t) ==
    IF s.active
    THEN [s EXCEPT !.active = FALSE, !.cur = Timeout_reset(t)]
    ELSE s

\* set_timeout() that resets only when a timeout is given
set_timeout_someonly(s, to, t) ==
    IF to = None THEN [s EXCEPT !.timeout = to] ELSE reset([s EXCEPT !.timeout = to], t)

\* set_timeout() without the reset()
set_timeout_noreset(s, to, t) == [s EXCEPT !.timeout = to]

set_timeout(s, to, t) == reset([s EXCEPT !.timeout = to], t)

\* check() that reads a missing timeout as a zero Duration
check_unwrap_or_default(s, t, dt) ==
    LET T == IF s.timeout = None THEN 0 ELSE s.timeout[1]
        armed == IF ~s.active
                 THEN [s EXCEPT !.cur = Timeout_reset(t + T), !.active = TRUE]
                 ELSE s
        ready == Timeout_poll(armed.cur, t + dt)
    IN  [state |-> armed, ok |-> ~ready, registered |-> ~ready]

\* check() that returns right after arming, polling only a countdown that was
\* already active
check_armonly(s, t, dt) ==
    IF s.timeout = None
    THEN [state |-> s, ok |-> TRUE, registered |-> FALSE]
    ELSE IF ~s.active
    THEN [state |-> [s EXCEPT !.cur = Timeout_reset(t + s.timeout[1]),
                              !.active = TRUE],
          ok |-> TRUE, registered |-> FALSE]
    ELSE LET ready == Timeout_poll(s.cur, t + dt)
         IN  [state |-> s, ok |-> ~ready, registered |-> ~ready]

\* check() with the countdown re-armed on every call
check_rearm(s, t, dt) ==
    IF s.timeout = None
    THEN [state |-> s, ok |-> TRUE, registered |-> FALSE]
    ELSE LET armed == [s EXCEPT !.cur = Timeout_reset(t + s.timeout[1]),
                                !.active = TRUE]
             ready == Timeout_poll(armed.cur, t + dt)
         IN  [state |-> armed, ok |-> ~ready, registered |-> ~ready]

\* check() that disarms the countdown when it reports TimedOut
check_selfclear(s, t, dt) ==
    IF s.timeout = None
    THEN [state |-> s, ok |-> TRUE, registered |-> FALSE]
    ELSE LET armed == IF ~s.active
                      THEN [s EXCEPT !.cur = Timeout_reset(t + s.timeout[1]),
                                     !.active = TRUE]
                      ELSE s
             ready == Timeout_poll(armed.cur, t + dt)
         IN  [state |-> IF ready THEN [armed EXCEPT !.active = FALSE] ELSE armed,
              ok |-> ~ready, registered |-> ~ready]

\* check() that arms the deadline at the current instant, the timeout not added
check_nodeadline(s, t, dt) ==
    IF s.timeout = None
    THEN [state |-> s, ok |-> TRUE, registered |-> FALSE]
    ELSE LET armed == IF ~s.active
                      THEN [s EXCEPT !.cur = Timeout_reset(t), !.active = TRUE]
                      ELSE s
             ready == Timeout_poll(armed.cur, t + dt)
         IN  [state |-> armed, ok |-> ~ready, registered |-> ~ready]

\* check() that compares the deadline with the clock by hand, so that no
\* wake-up is registered with the timer
check_peek(s, t, dt) ==
    IF s.timeout = None
    THEN [state |-> s, ok |-> TRUE, registered |-> FALSE]
    ELSE LET armed == IF ~s.active
                      THEN [s EXCEPT !.cur = Timeout_reset(t + s.timeout[1]),
                                     !.active = TRUE]
                      ELSE s
             ready == Timeout_poll(armed.cur, t + dt)
         IN  [state |-> armed, ok |-> ~ready, registered |-> FALSE]

\* check() that starts a new countdown when it finds the old one elapsed
check_rearm_expired(s, t, dt) ==
    IF s.timeout = None
    THEN [state |-> s, ok |-> TRUE, registered |-> FALSE]
    ELSE LET armed == IF ~s.active
                      THEN [s EXCEPT !.cur = Timeout_reset(t + s.timeout[1]),
                                     !.active = TRUE]
                      ELSE s
             ready == Timeout_poll(armed.cur, t + dt)
         IN  [state |-> IF ready /\ s.active
                        THEN [armed EXCEPT !.cur = Timeout_reset(t + dt + s.timeout[1])]
                        ELSE armed,
              ok |-> ~ready, registered |-> ~ready]

\* check(): called at instant t; the timer's poll reads the clock at t + dt.
\* ok = FALSE is Err(TimedOut).  registered: the poll returned NotReady, which
\* leaves the current task registered for a wake-up at the deadline.
check(s, t, dt) ==
    IF s.timeout = None
    THEN [state |-> s, ok |-> TRUE, registered |-> FALSE]
    ELSE LET armed == IF ~s.active
                      THEN [s EXCEPT !.cur = Timeout_reset(t + s.timeout[1]),
                                     !.active = TRUE]
                      ELSE s
             ready == Timeout_poll(armed.cur, t + dt)
         IN  [state |-> armed, ok |-> ~ready, registered |-> ~ready]

----------------------------------------------------------------------------
(* The decorators.  Each returns the layer's new TimeoutState, the result   *)
(* handed to the caller, whether the layer's timer registered a wake-up and *)
(* how many times the body invokes the layer's inner operation.             *)

\* The match of a timed operation with the result of check() dropped
Timed_swallow(s, wouldBlock, r, t, dt) ==
    IF wouldBlock
    THEN LET c == check(s, t, dt)
         IN  [state |-> c.state, result |-> r, registered |-> c.registered,
              calls |-> 1]
    ELSE [state |-> reset(s, t), result |-> r, registered |-> FALSE, calls |-> 1]

\* The match of a timed operation with check() called on every inner result
Timed_checkalways(s, wouldBlock, r, t, dt) ==
    LET c == check(s, t, dt)
    IN  [state |-> c.state,
         result |-> IF c.ok THEN r ELSE ErrTimedOut,
         registered |-> c.registered, calls |-> 1]

\* The match of a timed operation, the inner operation invoked a second time
\* when it reports would-block and the countdown has not elapsed
Timed_retry(s, wouldBlock, r, t, dt) ==
    IF wouldBlock
    THEN LET c == check(s, t, dt)
         IN  [state |-> c.state,
              result |-> IF c.ok THEN r ELSE ErrTimedOut,
              registered |-> c.registered,
              calls |-> IF c.ok THEN 2 ELSE 1]
    ELSE [state |-> reset(s, t), result |-> r, registered |-> FALSE, calls |-> 1]

\* let r = self.reader.<op>(..);
\* match r { <would-block> => self.state.check()?, _ => self.state.reset() }; r
\* wouldBlock says whether r matches the first arm.  The inner operation is
\* invoked once, by the `let`, on every path.
Timed(s, wouldBlock, r, t, dt) ==
    IF wouldBlock
    THEN LET c == check(s, t, dt)
         IN  [state |-> c.state,
              result |-> IF c.ok THEN r ELSE ErrTimedOut,
              registered |-> c.registered, calls |-> 1]
    ELSE [state |-> reset(s, t), result |-> r, registered |-> FALSE, calls |-> 1]

\* A pass-through that applies the layer's own countdown to the call
Forward_timed(s, r, t, dt) ==
    Timed(s, r \in {ErrWouldBlock, NotReady}, r, t, dt)

\* self.reader.write(buf) and the like: the inner result, the state untouched.
Forward(s, r, t, dt) ==
    [state |-> s, result |-> r, registered |-> FALSE, calls |-> 1]

TimeoutReader_read(s, r, t, dt) == Timed(s, r = ErrWouldBlock, r, t, dt)
TimeoutReader_read_buf(s, r, t, dt) == Timed(s, r = NotReady, r, t, dt)
TimeoutReader_write(s, r, t, dt) == Forward(s, r, t, dt)
\* TimeoutReader::flush with the match of the timed operations
TimeoutReader_flush_timed(s, r, t, dt) == Timed(s, r = ErrWouldBlock, r, t, dt)
TimeoutReader_flush(s, r, t, dt) == Forward(s, r, t, dt)
TimeoutReader_shutdown(s, r, t, dt) == Forward(s, r, t, dt)
TimeoutReader_write_buf(s, r, t, dt) == Forward(s, r, t, dt)
TimeoutReader_set_timeout(s, to, t) == set_timeout(s, to, t)
TimeoutReader_timeout(s) == timeout(s)

TimeoutWriter_write(s, r, t, dt) == Timed(s, r = ErrWouldBlock, r, t, dt)
\* TimeoutWriter::flush forwarded like a pass-through
TimeoutWriter_flush_untimed(s, r, t, dt) == Forward(s, r, t, dt)
TimeoutWriter_flush(s, r, t, dt) == Timed(s, r = ErrWouldBlock, r, t, dt)
TimeoutWriter_shutdown(s, r, t, dt) == Timed(s, r = NotReady, r, t, dt)
TimeoutWriter_write_buf(s, r, t, dt) == Timed(s, r = NotReady, r, t, dt)
TimeoutWriter_read(s, r, t, dt) == Forward(s, r, t, dt)
TimeoutWriter_read_buf(s, r, t, dt) == Forward(s, r, t, dt)
TimeoutWriter_set_timeout(s, to, t) == set_timeout(s, to, t)
TimeoutWriter_timeout(s) == timeout(s)

\* One layer's handling of operation op.
ReaderLayer(op, s, r, t, dt) ==
    CASE op = "read" -> TimeoutReader_read(s, r, t, dt)
      [] op = "read_buf" -> TimeoutReader_read_buf(s, r, t, dt)
      [] op = "write" -> TimeoutReader_write(s, r, t, dt)
      [] op = "flush" -> TimeoutReader_flush(s, r, t, dt)
      [] op = "shutdown" -> TimeoutReader_shutdown(s, r, t, dt)
      [] op = "write_buf" -> TimeoutReader_write_buf(s, r, t, dt)

WriterLayer(op, s, r, t, dt) ==
    CASE op = "read" -> TimeoutWriter_read(s, r, t, dt)
      [] op = "read_buf" -> TimeoutWriter_read_buf(s, r, t, dt)
      [] op = "write" -> TimeoutWriter_write(s, r, t, dt)
      [] op = "flush" -> TimeoutWriter_flush(s, r, t, dt)
      [] op = "shutdown" -> TimeoutWriter_shutdown(s, r, t, dt)
      [] op = "write_buf" -> TimeoutWriter_write_buf(s, r, t, dt)

\* TimeoutStream(TimeoutReader<TimeoutWriter<S>>): self.0.<op>(..) runs the
\* TimeoutReader's <op>, whose inner call is the TimeoutWriter's <op>, whose
\* inner call is S's <op>, which returns r.  calls: invocations of S's <op>,
\* each invocation of the TimeoutWriter's <op> making w.calls of them.
TimeoutStream_op(op, rd, wr, r, t, dt) ==
    LET w == WriterLayer(op, wr, r, t, dt)
        o == ReaderLayer(op, rd, w.result, t, dt)
    IN  [reader |-> o.state, writer |-> w.state, result |-> o.result,
         registered |-> o.registered \/ w.registered,
         calls |-> o.calls * w.calls]

\* write_timeout() that asks the outer layer
TimeoutStream_write_timeout_outer(rd, wr) == TimeoutReader_timeout(rd)

\* TimeoutStream::read_timeout: self.0.timeout()
TimeoutStream_read_timeout(rd, wr) == TimeoutReader_timeout(rd)

\* TimeoutStream::write_timeout: self.0.get_ref().timeout()
TimeoutStream_write_timeout(rd, wr) == TimeoutWriter_timeout(wr)

----------------------------------------------------------------------------
(* State *)

VARIABLES
    reader,   \* TimeoutStream.0.state: the TimeoutReader's TimeoutState
    writer,   \* TimeoutStream.0.reader.state: the TimeoutWriter's TimeoutState
    now,      \* Instant::now()
    last,     \* history: the most recent call on the stream and what it returned
    hist,     \* history, per direction: the current run of would-block outcomes
    task,     \* per direction, the future driving it under core.run; for a
              \* caller that loops over write and flush, the call it makes next
    wakeAt,   \* per direction, the deadlines its task is registered to wake at
    delay     \* per direction, the instant the inner DelayStream becomes ready

vars == <<reader, writer, now, last, hist, task, wakeAt, delay>>

Dirs == {"read", "write"}

\* The direction whose countdown an operation is timed by.
DirOf(op) == IF op \in ReadOps \cup {"set_read_timeout", "read_timeout"}
             THEN "read" ELSE "write"

\* The TimeoutState of a direction.
StateOf(d) == IF d = "read" THEN reader ELSE writer

\* The state machine's four states at instant t.
Class(s, t) ==
    IF s.timeout = None THEN "Disabled"
    ELSE IF ~s.active THEN "Idle"
    ELSE IF Timeout_poll(s.cur, t) THEN "Expired" ELSE "Counting"

\* `last` describes the call that has just returned: the direction it is
\* timed by; the inner stream's result ("set_timeout" for a set_*_timeout
\* call, "timeout" for a *_timeout call); the result returned to the caller;
\* the state the machine was in when the call was made; the place of its
\* would-block in the current run ("first", "later", or "fired" once a call of
\* the run has returned TimedOut); how many times the inner stream's operation
\* was invoked; and the Option<Duration> a *_timeout call returned.
NoCall == [dir |-> "none", inner |-> "none", result |-> "none",
           from |-> "none", run |-> "none", calls |-> 0, got |-> None]

\* What an event that ends a run did to the countdown: "none" when it found
\* none active, else the event that disarmed it.
Ended(cause, pre) == IF pre.active THEN cause ELSE "none"

\* runStart: instant of the first would-block of the current uninterrupted run
\* of would-block outcomes; fired: a call of this run returned TimedOut;
\* ended: which event disarmed the countdown of the previous run, if any;
\* set: the value most recently given to set_timeout.
NewHist == [runStart |-> Never, fired |-> FALSE, ended |-> "none", set |-> None]

\* The place of a would-block outcome in the run described by h.
RunPlace(h, op, r) ==
    IF r # WouldBlockOf(op) THEN "none"
    ELSE IF h.runStart = Never THEN "first"
    ELSE IF h.fired THEN "fired" ELSE "later"

\* History of a direction after a timed call at instant t: a would-block
\* outcome continues (or starts) the run, any other outcome ends it.
HistAfterCall(h, pre, op, r, result, t) ==
    IF r = WouldBlockOf(op)
    THEN [h EXCEPT !.runStart = IF @ = Never THEN t ELSE @,
                   !.fired = @ \/ (result = ErrTimedOut)]
    ELSE [h EXCEPT !.runStart = Never, !.fired = FALSE,
                   !.ended = Ended("outcome", pre)]

\* History of a direction after set_timeout(to).
HistAfterSet(pre, to) ==
    [runStart |-> Never, fired |-> FALSE, ended |-> Ended("set_timeout", pre),
     set |-> to]

\* The record of a call of op that found the direction in state pre.
CallRecord(d, h, pre, op, r, result, t, n) ==
    [dir |-> d, inner |-> r, result |-> result, from |-> Class(pre, t),
     run |-> RunPlace(h, op, r), calls |-> n, got |-> None]

SetRecord(d, pre, t) ==
    [dir |-> d, inner |-> "set_timeout", result |-> "none",
     from |-> Class(pre, t), run |-> "none", calls |-> 0, got |-> None]

\* The record of a read_timeout() / write_timeout() call that returned got.
GetRecord(d, pre, t, got) ==
    [dir |-> d, inner |-> "timeout", result |-> "none",
     from |-> Class(pre, t), run |-> "none", calls |-> 0, got |-> got]

\* TimeoutStream::new(stream, handle) at instant 0.
Init ==
    /\ reader = TimeoutState_new(0)
    /\ writer = TimeoutState_new(0)
    /\ now = 0
    /\ last = NoCall
    /\ hist = [d \in Dirs |-> NewHist]
    /\ task = [d \in Dirs |-> "none"]
    /\ wakeAt = [d \in Dirs |-> {}]
    /\ delay = [d \in Dirs |-> Never]

----------------------------------------------------------------------------
(* Operations of the TimeoutStream *)

\* stream.<op>(..) called at `now`, the inner stream answering r, dt ticks
\* passing during the call.  Only check() reads the clock twice, so time
\* passing inside a call that ends in reset() is left to Tick.
Call(op, r, dt) ==
    /\ now + dt <= MaxTime
    /\ r # WouldBlockOf(op) => dt = 0
    /\ LET o == TimeoutStream_op(op, reader, writer, r, now, dt)
           d == DirOf(op)
       IN  /\ reader' = o.reader
           /\ writer' = o.writer
           /\ now' = now + dt
           /\ last' = CallRecord(d, hist[d], StateOf(d), op, r, o.result, now,
                                   o.calls)
           /\ hist' = [hist EXCEPT ![d] =
                          HistAfterCall(@, StateOf(d), op, r, o.result, now)]
    /\ UNCHANGED <<task, wakeAt, delay>>

Read == \E r \in InnerResults("read"), dt \in 0..MaxSlip : Call("read", r, dt)
ReadBuf == \E r \in InnerResults("read_buf"), dt \in 0..MaxSlip : Call("read_buf", r, dt)
Write == \E r \in InnerResults("write"), dt \in 0..MaxSlip : Call("write", r, dt)
Flush == \E r \in InnerResults("flush"), dt \in 0..MaxSlip : Call("flush", r, dt)
Shutdown == \E r \in InnerResults("shutdown"), dt \in 0..MaxSlip : Call("shutdown", r, dt)
WriteBuf == \E r \in InnerResults("write_buf"), dt \in 0..MaxSlip : Call("write_buf", r, dt)

\* TimeoutStream::set_read_timeout: self.0.set_timeout(timeout)
SetReadTimeout(to) ==
    /\ reader' = TimeoutReader_set_timeout(reader, to, now)
    /\ last' = SetRecord("read", reader, now)
    /\ hist' = [hist EXCEPT !["read"] = HistAfterSet(reader, to)]
    /\ UNCHANGED <<writer, now, task, wakeAt, delay>>

\* TimeoutStream::set_write_timeout: self.0.get_mut().set_timeout(timeout)
SetWriteTimeout(to) ==
    /\ writer' = TimeoutWriter_set_timeout(writer, to, now)
    /\ last' = SetRecord("write", writer, now)
    /\ hist' = [hist EXCEPT !["write"] = HistAfterSet(writer, to)]
    /\ UNCHANGED <<reader, now, task, wakeAt, delay>>

\* TimeoutStream::read_timeout (&self)
ReadTimeout ==
    /\ last' = GetRecord("read", reader, now,
                         TimeoutStream_read_timeout(reader, writer))
    /\ UNCHANGED <<reader, writer, now, hist, task, wakeAt, delay>>

\* TimeoutStream::write_timeout (&self)
WriteTimeout ==
    /\ last' = GetRecord("write", writer, now,
                         TimeoutStream_write_timeout(reader, writer))
    /\ UNCHANGED <<reader, writer, now, hist, task, wakeAt, delay>>

\* Time passes between calls; no call has just returned.
Tick ==
    /\ now < MaxTime
    /\ now' = now + 1
    /\ last' = NoCall
    /\ UNCHANGED <<reader, writer, hist, task, wakeAt, delay>>

Next ==
    \/ Read
    \/ ReadBuf
    \/ Write
    \/ Flush
    \/ Shutdown
    \/ WriteBuf
    \/ \E to \in OptDuration : SetReadTimeout(to)
    \/ \E to \in OptDuration : SetWriteTimeout(to)
    \/ ReadTimeout
    \/ WriteTimeout
    \/ Tick

Spec == Init /\ [][Next]_vars

----------------------------------------------------------------------------
(* The stream driven by futures under core.run, as in the tests: the inner  *)
(* stream is a DelayStream, each direction is driven by one future that is   *)
(* polled when its task is notified and parks when it returns NotReady.      *)

\* Last instant of the clock under LiveSpec.
Horizon == MaxTime + MaxT

Delays == (0..(MaxT + 1)) \cup {Never}

\* DelayStream::read / DelayStream::write at instant t: Ok once the stream's
\* own Timeout has fired, WouldBlock before.  Never: a stream never ready.
DelayStream_op(dl, t) ==
    IF dl # Never /\ Timeout_poll(dl, t) THEN "Ok(n)" ELSE ErrWouldBlock

\* ReadFuture::poll / WriteFuture::poll: what the future resolves to, or
\* "parked" for Ok(Async::NotReady).
Future_poll(result) == IF result = ErrWouldBlock THEN "parked" ELSE result

\* The tests' setup: the wrapper is built at instant 0, set_timeout is called
\* on it, and core.run polls the futures for the first time.
LiveInit ==
    /\ now = 0
    /\ \E tr \in OptDuration, tw \in OptDuration :
           /\ reader = TimeoutReader_set_timeout(TimeoutState_new(0), tr, 0)
           /\ writer = TimeoutWriter_set_timeout(TimeoutState_new(0), tw, 0)
           /\ hist = [d \in Dirs |->
                         HistAfterSet(TimeoutState_new(0),
                                      IF d = "read" THEN tr ELSE tw)]
    /\ delay \in [Dirs -> Delays]
    /\ last = NoCall
    /\ task = [d \in Dirs |-> "notified"]
    /\ wakeAt = [d \in Dirs |-> {}]

\* core.run polls the notified future of direction d.
Poll(d) ==
    /\ task[d] = "notified"
    /\ \E dt \in 0..MaxSlip :
         /\ dt = 0 \/ now + dt <= MaxTime
         /\ LET op == IF d = "read" THEN "read" ELSE "write"
                r == DelayStream_op(delay[d], now)
                o == TimeoutStream_op(op, reader, writer, r, now, dt)
                s == IF d = "read" THEN o.reader ELSE o.writer
                res == Future_poll(o.result)
            IN  /\ r = WouldBlockOf(op) \/ dt = 0
                /\ reader' = o.reader
                /\ writer' = o.writer
                /\ now' = now + dt
                /\ last' = CallRecord(d, hist[d], StateOf(d), op, r, o.result, now,
                                   o.calls)
                /\ hist' = [hist EXCEPT ![d] =
                               HistAfterCall(@, StateOf(d), op, r, o.result, now)]
                /\ task' = [task EXCEPT ![d] = res]
                /\ wakeAt' = [wakeAt EXCEPT ![d] =
                                 IF res = "parked"
                                 THEN (IF delay[d] # Never THEN {delay[d]} ELSE {})
                                      \cup (IF o.registered THEN {s.cur} ELSE {})
                                 ELSE {}]
    /\ UNCHANGED delay

\* The reactor sleeps while no task is notified.  When it wakes, the timers that
\* have come due notify the tasks registered with them, and the tasks in W are
\* notified by a readiness event of the transport that yields no progress.
LiveTick ==
    /\ now < Horizon
    /\ \A d \in Dirs : task[d] # "notified"
    /\ now' = now + 1
    /\ \E W \in SUBSET Dirs :
         task' = [d \in Dirs |->
                     IF task[d] = "parked"
                        /\ (d \in W \/ \E w \in wakeAt[d] : w <= now + 1)
                     THEN "notified" ELSE task[d]]
    /\ last' = NoCall
    /\ UNCHANGED <<reader, writer, hist, wakeAt, delay>>

LiveNext ==
    \/ Poll("read")
    \/ Poll("write")
    \/ LiveTick

\* Notified futures are polled, and time advances.
LiveSpec ==
    /\ LiveInit
    /\ [][LiveNext]_vars
    /\ WF_vars(Poll("read"))
    /\ WF_vars(Poll("write"))
    /\ WF_vars(LiveTick)

----------------------------------------------------------------------------
(* The stream used by a caller that writes and flushes in turn, the inner   *)
(* stream's write reporting WouldBlock every time.                           *)

LoopInit ==
    /\ reader = TimeoutState_new(0)
    /\ writer = TimeoutState_new(0)
    /\ now = 0
    /\ last = NoCall
    /\ hist = [d \in Dirs |-> NewHist]
    /\ task = [d \in Dirs |-> IF d = "write" THEN "write" ELSE "none"]
    /\ wakeAt = [d \in Dirs |-> {}]
    /\ delay = [d \in Dirs |-> Never]

\* The caller's next call op, the inner stream answering r, dt ticks passing
\* during the call; the caller goes on to the call `next`.
LoopCall(op, r, dt, next) ==
    /\ task["write"] = op
    /\ now + dt <= MaxTime
    /\ r # WouldBlockOf(op) => dt = 0
    /\ LET o == TimeoutStream_op(op, reader, writer, r, now, dt)
       IN  /\ reader' = o.reader
           /\ writer' = o.writer
           /\ now' = now + dt
           /\ last' = CallRecord("write", hist["write"], writer, op, r, o.result,
                                 now, o.calls)
           /\ hist' = [hist EXCEPT !["write"] =
                          HistAfterCall(@, writer, op, r, o.result, now)]
    /\ task' = [task EXCEPT !["write"] = next]
    /\ UNCHANGED <<wakeAt, delay>>

\* stream.write(buf): the inner write would-blocks.
LoopWrite == \E dt \in 0..MaxSlip : LoopCall("write", ErrWouldBlock, dt, "flush")

\* stream.flush(): the inner flush answers anything.
LoopFlush ==
    \E r \in InnerResults("flush"), dt \in 0..MaxSlip : LoopCall("flush", r, dt, "write")

LoopNext ==
    \/ LoopWrite
    \/ LoopFlush
    \/ \E to \in OptDuration : SetWriteTimeout(to)
    \/ Tick

WriteFlushSpec == LoopInit /\ [][LoopNext]_vars

----------------------------------------------------------------------------
(* Properties.  `last` is the call that has just returned, so in a state     *)
(* where last.dir is a direction, `now` is the instant at which that call's  *)
(* timer poll (if any) read the clock.                                        *)

\* The call that has just returned is a read/write/flush/shutdown/.._buf call.
IsCall == last.dir \in Dirs /\ last.inner \notin {"set_timeout", "timeout"}

\* Its inner operation reported would-block.
LastWouldBlock == IsCall /\ last.inner \in {ErrWouldBlock, NotReady}

\* The TimeoutState and the history of the direction it is timed by.
LastState == StateOf(last.dir)
LastHist == hist[last.dir]

\* C1: when the inner operation of a timed call reports would-block, the call
\* returns TimedOut if a timeout is configured and the countdown's deadline
\* (set to call instant + timeout by this call when no countdown was active) is
\* not after the instant of the poll; otherwise it returns the inner
\* would-block result unchanged.
C1_WouldBlockChecked ==
    LastWouldBlock =>
      /\ last.result =
           IF LastState.timeout # None /\ LastState.active /\ LastState.cur <= now
           THEN ErrTimedOut ELSE last.inner
      /\ LastState.timeout # None =>
           /\ LastState.active
           /\ last.run = "first" =>
                LastState.cur = LastHist.runStart + LastState.timeout[1]

\* A would-block call with a positive timeout returned TimedOut.
C1_Witness ==
    /\ LastWouldBlock
    /\ last.result = ErrTimedOut
    /\ LastState.timeout # None /\ LastState.timeout[1] > 0

\* C2 as claimed: a timed call whose inner operation reports anything other
\* than would-block returns exactly the inner result, and TimedOut is returned
\* only by calls whose inner operation reported would-block.
C2_Original ==
    IsCall =>
      /\ ~LastWouldBlock => last.result = last.inner
      /\ last.result = ErrTimedOut => LastWouldBlock

\* C2: a timed call whose inner operation reports anything other than
\* would-block returns exactly the inner result, in every timeout state; a
\* TimedOut that the inner operation did not itself report is returned only by
\* calls whose inner operation reported would-block.
C2_PassThrough ==
    IsCall =>
      /\ ~LastWouldBlock => last.result = last.inner
      /\ (last.result = ErrTimedOut /\ last.inner # ErrTimedOut) => LastWouldBlock

\* A success arrived while the countdown was Expired and was returned as is.
C2_Witness ==
    /\ IsCall
    /\ last.from = "Expired"
    /\ last.inner = "Ok(n)"
    /\ last.result = "Ok(n)"

\* C3: under core.run with time advancing, a direction with a configured
\* timeout whose inner operation reports would-block on every poll eventually
\* has a call return TimedOut.
C3_EventuallyTimedOut ==
    \A d \in Dirs :
        (StateOf(d).timeout # None /\ delay[d] = Never) ~> (task[d] = ErrTimedOut)

\* A future on a never-ready stream resolved to TimedOut after a positive
\* timeout, its task having been parked in between.
C3_Witness ==
    \E d \in Dirs :
        /\ delay[d] = Never
        /\ task[d] = ErrTimedOut
        /\ StateOf(d).timeout # None /\ StateOf(d).timeout[1] > 0
        /\ last.dir = d /\ last.run = "later"

\* C4 as claimed: a timed call returns TimedOut only if a timeout T is
\* configured and at least T has passed since the first would-block of the
\* current run (the run restarts after every other outcome and every
\* set_timeout); a call whose inner operation completes returns its result.
C4_Original ==
    IsCall =>
      /\ last.result = ErrTimedOut =>
           /\ LastState.timeout # None
           /\ LastHist.runStart # Never
           /\ now - LastHist.runStart >= LastState.timeout[1]
      /\ ~LastWouldBlock => last.result = last.inner

\* C4: a timed call returns a TimedOut that its inner operation did not itself
\* report only if a timeout T is configured and at least T has passed since the
\* first would-block of the current run (the run restarts after every other
\* outcome and every set_timeout); a call whose inner operation completes
\* returns that operation's result.
C4_NoEarlyTimeout ==
    IsCall =>
      /\ (last.result = ErrTimedOut /\ last.inner # ErrTimedOut) =>
           /\ LastWouldBlock
           /\ LastState.timeout # None
           /\ LastHist.runStart # Never
           /\ now - LastHist.runStart >= LastState.timeout[1]
      /\ ~LastWouldBlock => last.result = last.inner

\* The inner operation succeeded while the countdown was still Counting, and
\* the success was returned.
C4_Witness ==
    /\ IsCall
    /\ last.from = "Counting"
    /\ last.inner \in {"Ok(n)", "Ok(Ready(n))"}
    /\ last.result = last.inner

\* C5: an outcome other than would-block leaves the direction's countdown
\* disarmed; the first would-block after it arms a deadline of that instant
\* plus T; and a TimedOut in the run that follows comes no earlier than T after
\* that run's first would-block.
C5_OutcomeResets ==
    IsCall =>
      /\ ~LastWouldBlock => ~LastState.active
      /\ (LastWouldBlock /\ LastHist.ended = "outcome" /\ LastState.timeout # None) =>
           /\ LastState.active
           /\ LastState.cur = LastHist.runStart + LastState.timeout[1]
           /\ last.result = ErrTimedOut =>
                now >= LastHist.runStart + LastState.timeout[1]

\* After an outcome that disarmed an active countdown, the following run of
\* would-blocks timed out exactly T > 0 after its first would-block.
C5_Witness ==
    /\ LastWouldBlock
    /\ LastHist.ended = "outcome"
    /\ last.result = ErrTimedOut
    /\ LastState.timeout # None /\ LastState.timeout[1] > 0
    /\ now = LastHist.runStart + LastState.timeout[1]

\* C6: while the value last given to set_timeout is None (or none was given),
\* no countdown is active and every would-block call returns the inner
\* would-block result.
C6_NoneDisables ==
    \A d \in Dirs :
        hist[d].set = None =>
          /\ StateOf(d).timeout = None
          /\ ~StateOf(d).active
          /\ (LastWouldBlock /\ last.dir = d) => last.result = last.inner

\* set_timeout(None) disarmed an active countdown, and a would-block call made
\* at least a tick into the following run returned would-block.
C6_Witness ==
    /\ LastWouldBlock
    /\ LastHist.set = None
    /\ LastHist.ended = "set_timeout"
    /\ LastHist.runStart # Never /\ now > LastHist.runStart
    /\ last.result = last.inner

\* C7: set_timeout leaves no countdown active (Idle after Some(T')); in the
\* run that follows a set_timeout(Some(T')) which discarded an active
\* countdown, the deadline is the instant of the run's first would-block plus
\* T', and TimedOut is returned no earlier than that.
C7_SetTimeoutDiscards ==
    /\ (last.dir \in Dirs /\ last.inner = "set_timeout") =>
         /\ ~LastState.active
         /\ LastState.timeout = LastHist.set
         /\ LastHist.set # None => Class(LastState, now) = "Idle"
    /\ \A d \in Dirs :
         (hist[d].ended = "set_timeout" /\ hist[d].set # None
            /\ hist[d].runStart # Never) =>
           /\ StateOf(d).active
           /\ StateOf(d).cur = hist[d].runStart + hist[d].set[1]
           /\ (LastWouldBlock /\ last.dir = d /\ last.result = ErrTimedOut) =>
                now >= hist[d].runStart + hist[d].set[1]

\* set_timeout(Some(1)) discarded an Expired or Counting countdown, and the
\* first would-block after it armed a deadline one tick ahead and returned
\* would-block.
C7_Witness ==
    /\ LastWouldBlock
    /\ last.run = "first"
    /\ LastHist.ended = "set_timeout"
    /\ LastHist.set = Some(1)
    /\ LastState.cur = now + 1
    /\ last.result = last.inner

\* C8: every step whose call is timed by the read direction (read, read_buf,
\* set_read_timeout, whatever it returns) leaves the write direction's timeout,
\* active flag and deadline unchanged, and every step whose call is timed by
\* the write direction (write, flush, shutdown, write_buf, set_write_timeout)
\* leaves the read direction's unchanged; and with no write timeout, a
\* would-blocking write returns would-block whatever the read direction's state.
C8_Independent ==
    /\ [][/\ last'.dir = "read" => writer' = writer
          /\ last'.dir = "write" => reader' = reader]_vars
    /\ [](writer.timeout = None /\ LastWouldBlock /\ last.dir = "write"
            => last.result = last.inner)

\* With write timeout None and a read timeout set, a read timed out while a
\* run of would-blocking writes was in progress.
C8_Witness ==
    /\ writer.timeout = None
    /\ hist["write"].runStart # Never
    /\ reader.timeout # None /\ reader.timeout[1] > 0
    /\ LastWouldBlock /\ last.dir = "read"
    /\ last.result = ErrTimedOut

\* C9: a would-block call made after a call of the same run has returned
\* TimedOut (no other outcome and no set_timeout in between) returns TimedOut.
C9_StaysFired ==
    (LastWouldBlock /\ last.run = "fired") => last.result = ErrTimedOut

\* A second TimedOut in one run, with a positive timeout.
C9_Witness ==
    /\ LastWouldBlock
    /\ last.run = "fired"
    /\ last.result = ErrTimedOut
    /\ LastState.timeout # None /\ LastState.timeout[1] > 0

\* C10: with a timeout of zero, the first would-block of a run returns
\* TimedOut in that same call, the deadline being the instant of the call.
C10_ZeroTimeout ==
    (LastWouldBlock /\ last.run = "first" /\ LastHist.set = Some(0)) =>
      /\ last.result = ErrTimedOut
      /\ LastState.cur = LastHist.runStart

\* The first would-block after set_timeout(Some(0)) returned TimedOut with no
\* time passing during the call.
C10_Witness ==
    /\ LastWouldBlock
    /\ last.run = "first"
    /\ LastHist.set = Some(0)
    /\ last.result = ErrTimedOut
    /\ now = LastHist.runStart

\* C11 as claimed: while no set_timeout(Some(_)) has been given for a direction
\* (from construction on), timeout() is None, no countdown is active and no
\* call timed by that direction returns TimedOut.
C11_Original ==
    \A d \in Dirs :
        hist[d].set = None =>
          /\ timeout(StateOf(d)) = None
          /\ ~StateOf(d).active
          /\ (IsCall /\ last.dir = d) => last.result # ErrTimedOut

\* C11: while no set_timeout(Some(_)) has been given for a direction (from
\* construction on), timeout() is None, no countdown is active, and a call
\* timed by that direction returns TimedOut only when its inner operation
\* itself reported TimedOut.
C11_InitiallyDisabled ==
    \A d \in Dirs :
        hist[d].set = None =>
          /\ timeout(StateOf(d)) = None
          /\ ~StateOf(d).active
          /\ (IsCall /\ last.dir = d /\ last.result = ErrTimedOut) =>
                last.inner = ErrTimedOut

\* On a direction that never had a countdown, a would-block call made at least
\* a tick after the run's first would-block returned would-block.
C11_Witness ==
    /\ LastWouldBlock
    /\ LastHist.set = None
    /\ LastHist.ended = "none"
    /\ LastHist.runStart # Never /\ now > LastHist.runStart
    /\ last.result = last.inner
    /\ timeout(LastState) = None

\* C12: in every state read_timeout() and write_timeout() return the value
\* last given to set_read_timeout and set_write_timeout respectively (None
\* before any), so neither is affected by setting the other; a *_timeout call
\* returns that value and changes neither direction's state; and a
\* read/write/flush/shutdown/.._buf call changes neither configured timeout.
C12_GetSetRoundTrip ==
    /\ [](/\ TimeoutStream_read_timeout(reader, writer) = hist["read"].set
          /\ TimeoutStream_write_timeout(reader, writer) = hist["write"].set
          /\ last.inner = "timeout" => last.got = LastHist.set)
    /\ [][/\ last'.inner = "timeout" => reader' = reader /\ writer' = writer
          /\ last'.inner \notin {"set_timeout", "none"} =>
                /\ timeout(reader') = timeout(reader)
                /\ timeout(writer') = timeout(writer)]_vars

\* write_timeout() returned Some(1) after set_write_timeout(Some(1)) and a
\* would-blocking write-side call, the read timeout being Some(0).
C12_Witness ==
    /\ last.inner = "timeout" /\ last.dir = "write"
    /\ last.got = Some(1)
    /\ hist["write"].runStart # Never
    /\ TimeoutStream_read_timeout(reader, writer) = Some(0)

\* C13: in every reachable state, whatever the layer's own countdown (Counting
\* and Expired included), write/flush/shutdown/write_buf through the
\* TimeoutReader and read/read_buf through the TimeoutWriter return exactly the
\* result of the layer's inner operation and leave the layer's TimeoutState
\* unchanged; so on the stream a TimedOut that the inner stream did not report
\* comes only from the Expired countdown of the call's own direction.
C13_PassThroughUntimed ==
    /\ \A op \in WriteOps : \A r \in InnerResults(op) : \A dt \in 0..MaxSlip :
          LET o == ReaderLayer(op, reader, r, now, dt)
          IN  o.state = reader /\ o.result = r
    /\ \A op \in ReadOps : \A r \in InnerResults(op) : \A dt \in 0..MaxSlip :
          LET o == WriterLayer(op, writer, r, now, dt)
          IN  o.state = writer /\ o.result = r
    /\ (IsCall /\ last.result = ErrTimedOut /\ last.inner # ErrTimedOut) =>
          Class(LastState, now) = "Expired"

\* A would-blocking write-side call returned would-block, its own countdown
\* running, while the TimeoutReader's countdown was Expired.
C13_Witness ==
    /\ LastWouldBlock /\ last.dir = "write"
    /\ last.result = last.inner
    /\ Class(writer, now) = "Counting"
    /\ Class(reader, now) = "Expired"

\* The state of direction d's machine at the current instant.
ClassOf(d) == Class(StateOf(d), now)

\* What the call l that a step made is to direction d: a set_timeout on d, a
\* would-block or another outcome of an operation timed by d, or nothing but
\* time possibly passing (a call on the other direction, a *_timeout call, or
\* no call).
CauseFor(l, d) ==
    IF l.dir # d \/ l.inner = "timeout" THEN "time"
    ELSE IF l.inner = "set_timeout" THEN "set_timeout"
    ELSE IF l.inner \in {ErrWouldBlock, NotReady} THEN "would-block"
    ELSE "outcome"

\* The listed transitions: from state pre to state post by a step of the given
\* cause (setv: the value given to set_timeout; elapsed: the clock advanced
\* during the step; run: the place of a would-block in its run).  A machine
\* that no listed transition moves stays where it is.  idleToExpired adds the
\* transition from Idle to Expired on a first would-block.
Transition(pre, post, cause, setv, elapsed, run, idleToExpired) ==
    CASE cause = "set_timeout" ->
           post = IF setv = None THEN "Disabled" ELSE "Idle"
      [] cause = "outcome" ->
           post = IF pre = "Disabled" THEN "Disabled" ELSE "Idle"
      [] cause = "would-block" ->
           (CASE pre = "Disabled" -> post = "Disabled"
              [] pre = "Idle" ->
                   /\ run = "first"
                   /\ \/ post = "Counting"
                      \/ idleToExpired /\ post = "Expired"
              [] pre = "Counting" ->
                   post = "Counting" \/ (elapsed /\ post = "Expired")
              [] pre = "Expired" -> post = "Expired")
      [] cause = "time" ->
           post = pre \/ (pre = "Counting" /\ elapsed /\ post = "Expired")

\* C14 as claimed: every step (one operation, or time passing) takes each
\* direction's machine along one of the listed transitions -- Disabled to Idle
\* via set_timeout(Some); Idle to Counting on the first would-block after a
\* reset; Counting to Counting; Counting to Expired when the deadline elapses;
\* Expired to Expired; Counting or Expired to Idle on reset; any state to
\* Disabled on set_timeout(None) -- or leaves it where it is.
C14_Original ==
    [][\A d \in Dirs :
          Transition(ClassOf(d), ClassOf(d)', CauseFor(last', d), hist'[d].set,
                     now' > now, last'.run, FALSE)]_vars

\* C14: every step (one operation, or time passing) takes each direction's
\* machine along one of the listed transitions, or from Idle to Expired on a
\* first would-block whose deadline is already reached when the countdown is
\* polled in that same call, or leaves it where it is.
C14_Transitions ==
    [][\A d \in Dirs :
          Transition(ClassOf(d), ClassOf(d)', CauseFor(last', d), hist'[d].set,
                     now' > now, last'.run, TRUE)]_vars

\* With a zero timeout, a first would-block found the machine Idle and left it
\* Expired, no time passing during the call.
C14_Witness ==
    /\ LastWouldBlock
    /\ last.from = "Idle" /\ last.run = "first"
    /\ LastState.timeout = Some(0)
    /\ ClassOf(last.dir) = "Expired"
    /\ now = LastHist.runStart

\* C15 as claimed: in every reachable state an active countdown has a timeout
\* configured, its deadline is the instant it was armed (the first would-block
\* of the current run) plus that timeout, and no check since it was armed has
\* observed it elapsed (no call of the run has returned TimedOut).
C15_Original ==
    \A d \in Dirs :
        StateOf(d).active =>
          /\ StateOf(d).timeout # None
          /\ hist[d].runStart # Never
          /\ StateOf(d).cur = hist[d].runStart + StateOf(d).timeout[1]
          /\ ~hist[d].fired

\* C15: in every reachable state an active countdown has a timeout configured
\* and its deadline is the instant it was armed (the first would-block of the
\* current run) plus that timeout; a countdown that a check has observed
\* elapsed is still active, with that same deadline, now reached.
C15_ActiveDeadline ==
    \A d \in Dirs :
        /\ StateOf(d).active =>
              /\ StateOf(d).timeout # None
              /\ hist[d].runStart # Never
              /\ StateOf(d).cur = hist[d].runStart + StateOf(d).timeout[1]
        /\ hist[d].fired => StateOf(d).active /\ StateOf(d).cur <= now

\* A countdown armed with a timeout of one tick was observed elapsed by a
\* check, and is still active after its deadline has passed.
C15_Witness ==
    \E d \in Dirs :
        /\ StateOf(d).active
        /\ hist[d].fired
        /\ StateOf(d).timeout = Some(1)
        /\ StateOf(d).cur = hist[d].runStart + 1
        /\ now > StateOf(d).cur

\* C16: in every reachable state a direction whose configured timeout is None
\* has no active countdown; check with timeout None leaves the state as it is
\* and succeeds; and set_timeout(None) leaves no countdown active.
C16_NoneNotActive ==
    /\ \A d \in Dirs :
          StateOf(d).timeout = None =>
            /\ ~StateOf(d).active
            /\ \A dt \in 0..MaxSlip :
                  LET c == check(StateOf(d), now, dt)
                  IN  c.state = StateOf(d) /\ c.ok
    /\ \A d \in Dirs : \A dt \in 0..MaxSlip :
          LET s == set_timeout(StateOf(d), None, now)
          IN  ~s.active /\ ~check(s, now, dt).state.active

\* set_timeout(None) found a countdown Counting or Expired and disarmed it.
C16_Witness ==
    /\ last.dir \in Dirs /\ last.inner = "set_timeout"
    /\ last.from \in {"Counting", "Expired"}
    /\ LastHist.ended = "set_timeout"
    /\ LastState.timeout = None
    /\ ~LastState.active

\* C17: under core.run, a task parked by a would-block of a direction with a
\* timeout configured has an active countdown whose deadline is among the
\* instants the task is registered to be woken at; once the reactor has turned,
\* no task is left parked on a deadline that has been reached; and when the
\* inner stream never becomes ready, the parked task is polled again and its
\* future resolves to TimedOut.
C17_WokenAtDeadline ==
    /\ [](\A d \in Dirs :
            (task[d] = "parked" /\ StateOf(d).timeout # None) =>
              /\ StateOf(d).active
              /\ StateOf(d).cur \in wakeAt[d]
              /\ last = NoCall => StateOf(d).cur > now)
    /\ \A d \in Dirs :
          (task[d] = "parked" /\ StateOf(d).timeout # None /\ delay[d] = Never)
            ~> (task[d] = ErrTimedOut)

\* On a never-ready stream the future was polled at the very instant of its
\* deadline, one tick after the countdown was armed, found the countdown
\* Expired and resolved to TimedOut.
C17_Witness ==
    \E d \in Dirs :
        /\ delay[d] = Never
        /\ task[d] = ErrTimedOut
        /\ last.dir = d /\ last.from = "Expired"
        /\ StateOf(d).timeout = Some(1)
        /\ now = StateOf(d).cur

\* C18: check applied to a state whose countdown is active leaves the state,
\* deadline included, as it is; after every would-block call with a timeout T
\* configured the deadline is the instant of the run's first would-block plus
\* T, and the call returns TimedOut exactly when its poll is made at or after
\* that instant, however many would-block calls came before it in the run.
C18_NoRearm ==
    /\ \A d \in Dirs : \A dt \in 0..MaxSlip :
          StateOf(d).active => check(StateOf(d), now, dt).state = StateOf(d)
    /\ (LastWouldBlock /\ LastState.timeout # None) =>
          /\ LastHist.runStart # Never
          /\ LastState.cur = LastHist.runStart + LastState.timeout[1]
          /\ last.result = ErrTimedOut <=>
                now >= LastHist.runStart + LastState.timeout[1]

\* A would-block call that was not the first of its run returned the run's
\* first TimedOut exactly one tick, the timeout, after the run's first
\* would-block.
C18_Witness ==
    /\ LastWouldBlock
    /\ last.run = "later"
    /\ last.result = ErrTimedOut
    /\ LastState.timeout = Some(1)
    /\ now = LastHist.runStart + 1

====
